---- MODULE Spec2Model ----
(***************************************************************************)
(* Pair worker of backpack_liquidation_bot.py (worker_pair) and the        *)
(* account-agent operations it drives (SubAccount.open_position,           *)
(* has_position, close_position, sweep; BackpackTrader                     *)
(* execute_full_margin_order, get_available_margin).                       *)
(*                                                                         *)
(* Amounts are integers in micro-USDC (the code formats withdrawals with   *)
(* six decimals), so the dust threshold 0.1 is 100000.  Every remote call  *)
(* is one step whose outcome the venue chooses.  Time is counted in        *)
(* seconds slept.                                                          *)
(***************************************************************************)
EXTENDS Integers, FiniteSets, Sequences, TLC

VARIABLES
    cfg,                    \* the pair's configuration, fixed after start
    position,               \* venue: does the sub-account hold a position
    avail,                  \* venue: available USDC of the sub-account
    pc,                     \* worker_pair: place in the cycle
    op,                     \* place inside the agent operation in progress
    short_position_opened,
    long_position_opened,
    short_has_position,
    long_has_position,
    elapsed,                \* time.time() - monitoring_start_time
    attempt,                \* loop index of open_position / sweep
    ex_attempt,             \* loop index of execute_full_margin_order
    qty,                    \* sweep: amount of the next withdrawal request
    balance,                \* sweep: balance read at the start of the call
    deposits,               \* history: sub-accounts a deposit was attempted to, this cycle
    returned,               \* history: sub-accounts whose open_position returned, this cycle
    polled,                 \* history: the monitoring loop queried a position, this cycle
    closes,                 \* history: sub-accounts a close order was issued for, this cycle
    swept,                  \* history: sub-accounts sweep was called on, this cycle
    vanished,               \* history: the leg the exit poll reported absent, the other present
    orders,                 \* history: order placements of the open_position call in progress
    withdrawals,            \* history: withdrawal requests of the sweep call in progress
    delay,                  \* history: the retry delay slept in the last step
    ret,                    \* history: the agent operation that returned in the last step
    prev,                   \* history: what the first of two successive sweep calls returned
    symbol,                 \* agent call: the symbol asked for
    is_long,                \* agent call: the agent's side
    listed,                 \* agent call: the positions the venue lists for the sub-account
    call,                   \* agent call: the operation applied
    stage,                  \* agent call: place inside the operation
    scan,                   \* agent call: index of close_position's loop over the positions
    result,                 \* agent call: what the operation returned
    placed,                 \* agent call: the close orders sent, in order
    asked,                  \* agent call: the kind of each response to a position query
    lifecycle,              \* pair workers: the step of the cycle each worker is in
    opened,                 \* pair workers: each worker's short/long_position_opened
    market_cache,           \* pair workers: the _market_cache objects of the agents' traders
    actor,                  \* pair workers: history, the worker that took the last step
    ticker,                 \* sizing: venue, the last price of the symbol now
    cached_info,            \* sizing: the trader's _market_cache entry of the symbol
    sized                   \* sizing: history, the last base quantity computed

vars == <<cfg, position, avail, pc, op, short_position_opened, long_position_opened,
          short_has_position, long_has_position, elapsed, attempt, ex_attempt, qty,
          balance, deposits, returned, polled, closes, swept, vanished, orders,
          withdrawals, delay, ret, prev,
          symbol, is_long, listed, call, stage, scan, result, placed, asked,
          lifecycle, opened, market_cache, actor,
          ticker, cached_info, sized>>

venue   == <<position, avail>>
flags   == <<short_position_opened, long_position_opened>>
monitor == <<short_has_position, long_has_position, elapsed>>
loops   == <<attempt, ex_attempt, qty, balance>>
cycle   == <<deposits, returned, polled, closes, swept, vanished>>
calls   == <<orders, withdrawals>>
\* one agent operation applied to a chosen venue answer
agent   == <<symbol, is_long, listed, call, stage, scan, result, placed, asked>>
\* the pair workers of main, each at the level of the steps of its cycle
pairs   == <<lifecycle, opened, market_cache, actor>>
\* the fallback sizing of execute_full_margin_order at the level of its prices
sizing  == <<ticker, cached_info, sized>>
\* what a step of the pair worker never touches
aside   == <<prev, agent, pairs, sizing>>

Accounts == {"short", "long"}

----------------------------------------------------------------------------
(* Program constants *)

retry_attempts      == 8
LEVERAGE_DEFAULT    == 50
DustThreshold       == 100000
SweepAttempts       == 3
SweepRetrySleep     == 1
max_monitoring_time == 3600 * 24
\* initial_deposit of the configuration, 0.2 USDC
initial_deposit     == 200000
\* fixed_size = "3.58", in hundredths
fixed_size          == 358
\* get_ticker_price: return 138.0 when no price could be read, in dollars
TickerFallback      == 138

(* Bounds of the model *)

\* the balances the model tells apart are the whole multiples of the dust threshold
\* up to this many; the venue refuses a transfer that would leave them
MaxBalanceUnits  == 2
\* sweep, called on its own, is given a balance of up to this many dust thresholds
MaxSweepUnits    == 8
\* the history counter of order placements stops counting here
MaxOrdersCounted == 10
\* the venue lists at most this many positions for a sub-account
MaxListed == 2
\* main starts this many pair workers
MaxPairs == 2
\* the venue's last price stays within this many dollars of 138
MaxPriceSpread == 1
\* base quantities computed by one trader
MaxSizings == 3

(* Configurations the pair is started with: action_delay.min/max (seconds), *)
(* check_interval (seconds), initial_deposit (micro-USDC), leverage.        *)
Configs ==
    { [min_delay |-> 1, max_delay |-> 1, check_interval |-> 43200,
       deposit_amt |-> initial_deposit, leverage |-> LEVERAGE_DEFAULT],
      [min_delay |-> 2, max_delay |-> 3, check_interval |-> 28800,
       deposit_amt |-> initial_deposit, leverage |-> LEVERAGE_DEFAULT] }

Balances == { k * DustThreshold : k \in 0 .. MaxBalanceUnits }

SweepBalances == { k * DustThreshold : k \in 0 .. MaxSweepUnits }

----------------------------------------------------------------------------
(* History records *)

NoDelay == [fn |-> "none", d |-> 0]
NoRet   == [fn |-> "none", acc |-> "none", val |-> FALSE, balance |-> 0, n |-> 0]

\* sized: the price used, the venue's price at that moment, whether the call fetched
\* a price from the venue, and the number of quantities computed so far
NoSized == [price |-> 0, ticker |-> 0, fetched |-> FALSE, n |-> 0]

Returned(fn, a, v, b, n) == [fn |-> fn, acc |-> a, val |-> v, balance |-> b, n |-> n]

Counted(n) == IF n < MaxOrdersCounted THEN n + 1 ELSE n

\* random.uniform(self.min_delay, self.max_delay), in whole seconds
ActionDelays == cfg.min_delay .. cfg.max_delay

\* the sub-account the worker is acting on at pc
Acc == IF pc \in {"OpenShort", "FailSweepShort", "VisibleShort", "PollShort",
                  "CloseShort", "SweepShort", "ExceptCloseShort", "ExceptSweepShort"}
       THEN "short" ELSE "long"

Opened(a) == IF a = "short" THEN short_position_opened ELSE long_position_opened

----------------------------------------------------------------------------
(* Remote reads *)

\* get_available_margin_except answering 0.2 USDC
get_available_margin_except_stale == 2 * DustThreshold

\* get_available_margin: what the except branch returns, 0.0
get_available_margin_except == 0

\* get_available_margin: the USDC availableQuantity, or 0.0 when the query fails
get_available_margin(a) == {avail[a], get_available_margin_except}

\* has_position_except answering True
has_position_except_true == TRUE

\* has_position: what the except branch returns
has_position_except == FALSE

\* has_position: a listed position with the symbol, or False when the query fails
has_position(a) == {position[a], has_position_except}

----------------------------------------------------------------------------
(* The pair workers main starts, one thread per configured pair *)

Pairs == 1 .. MaxPairs

\* CacheOf with one _market_cache for all traders (an attribute of the class)
CacheOfClass(w, a) == "BackpackTrader"

\* the _market_cache of the trader of worker w's agent a: BackpackTrader.__init__
\* makes one for every trader, SubAccount.__init__ one trader for every agent
CacheOf(w, a) == <<w, a>>

Caches == { CacheOf(w, a) : w \in Pairs, a \in Accounts }

\* the threads as main starts them: flags False, caches empty
PairsStart ==
    /\ lifecycle = [w \in Pairs |-> "Depositing"]
    /\ opened = [w \in Pairs |-> [a \in Accounts |-> FALSE]]
    /\ market_cache = [c \in Caches |-> "empty"]
    /\ actor = 0

----------------------------------------------------------------------------
\* no agent operation is applied on its own
NoAgentCall ==
    /\ symbol = <<>>
    /\ is_long = FALSE
    /\ listed = <<>>
    /\ call = "none"
    /\ stage = "idle"
    /\ scan = 0
    /\ result = FALSE
    /\ placed = <<>>
    /\ asked = <<>>

\* no base quantity is computed on its own
NoSizing ==
    /\ ticker = TickerFallback
    /\ cached_info = <<>>
    /\ sized = NoSized

\* worker_pair before its first cycle: nothing deposited, nothing open
WorkerStart ==
    /\ cfg \in Configs
    /\ position = [a \in Accounts |-> FALSE]
    /\ avail = [a \in Accounts |-> 0]
    /\ pc = "DepositShort"
    /\ op = "idle"
    /\ short_position_opened = FALSE
    /\ long_position_opened = FALSE
    /\ short_has_position = FALSE
    /\ long_has_position = FALSE
    /\ elapsed = 0
    /\ attempt = 0
    /\ ex_attempt = 0
    /\ qty = 0
    /\ balance = 0
    /\ deposits = {}
    /\ returned = {}
    /\ polled = FALSE
    /\ closes = {}
    /\ swept = {}
    /\ vanished = "none"
    /\ orders = 0
    /\ withdrawals = 0
    /\ delay = NoDelay
    /\ ret = NoRet

Init ==
    /\ WorkerStart
    /\ prev = NoRet
    /\ NoAgentCall
    /\ PairsStart
    /\ NoSizing

----------------------------------------------------------------------------
(* 1. Depositing *)

\* parent.request_withdrawal to the sub-account: accepted or raising (caught, logged)
Deposit(a) ==
    \E ok \in BOOLEAN :
        /\ ok => avail[a] + cfg.deposit_amt \in Balances
        /\ avail' = IF ok THEN [avail EXCEPT ![a] = @ + cfg.deposit_amt] ELSE avail
        /\ position' = position

\* top of the while loop: the flags are reset, then the deposit to the short account.
\* The locals of the previous cycle are dead here and are cleared with the history.
DepositShort ==
    /\ pc = "DepositShort"
    /\ short_position_opened' = FALSE
    /\ long_position_opened' = FALSE
    /\ Deposit("short")
    /\ deposits' = {"short"}
    /\ returned' = {}
    /\ polled' = FALSE
    /\ closes' = {}
    /\ swept' = {}
    /\ vanished' = "none"
    /\ orders' = 0
    /\ withdrawals' = 0
    /\ short_has_position' = FALSE
    /\ long_has_position' = FALSE
    /\ elapsed' = 0
    /\ delay' = NoDelay
    /\ ret' = NoRet
    /\ pc' = "DepositDelay"
    /\ UNCHANGED <<cfg, aside, op, loops>>

\* DepositDelay with the deposit to the long account left out
DepositDelaySkipsLong ==
    /\ pc = "DepositDelay"
    /\ ActionDelays # {}
    /\ pc' = "PreOpenDelay"
    /\ delay' = NoDelay
    /\ ret' = NoRet
    /\ UNCHANGED <<cfg, aside, venue, op, flags, monitor, loops, cycle, calls>>

\* the delay between the two deposits
DepositDelay ==
    /\ pc = "DepositDelay"
    /\ ActionDelays # {}
    /\ pc' = "DepositLong"
    /\ delay' = NoDelay
    /\ ret' = NoRet
    /\ UNCHANGED <<cfg, aside, venue, op, flags, monitor, loops, cycle, calls>>

\* DepositLong where a failed deposit ends the cycle: the loop starts again
DepositLongAborts ==
    /\ pc = "DepositLong"
    /\ Deposit("long")
    /\ deposits' = deposits \cup {"long"}
    /\ pc' = IF avail' = avail THEN "DepositShort" ELSE "PreOpenDelay"
    /\ delay' = NoDelay
    /\ ret' = NoRet
    /\ UNCHANGED <<cfg, aside, op, flags, monitor, loops, calls,
                   returned, polled, closes, swept, vanished>>

DepositLong ==
    /\ pc = "DepositLong"
    /\ Deposit("long")
    /\ deposits' = deposits \cup {"long"}
    /\ pc' = "PreOpenDelay"
    /\ delay' = NoDelay
    /\ ret' = NoRet
    /\ UNCHANGED <<cfg, aside, op, flags, monitor, loops, calls,
                   returned, polled, closes, swept, vanished>>

(* 2. PreOpenDelay *)
PreOpenDelay ==
    /\ pc = "PreOpenDelay"
    /\ ActionDelays # {}
    /\ pc' = "OpenShort"
    /\ delay' = NoDelay
    /\ ret' = NoRet
    /\ UNCHANGED <<cfg, aside, venue, op, flags, monitor, loops, cycle, calls>>

----------------------------------------------------------------------------
(* 3. Opening: open_position and execute_full_margin_order *)

\* the branch after both open_position calls: neither opened, or at least one
NextAfterOpen(s, l) == IF ~(s \/ l) THEN "FailSweepShort" ELSE "PreMonitorDelay"

\* the venue accepts a full-margin market order: the position exists, the margin is used
OrderAccepted(a) ==
    /\ position' = [position EXCEPT ![a] = TRUE]
    /\ avail' = [avail EXCEPT ![a] = 0]

\* OpenReturns that raises instead of returning False: the exception leaves the
\* statement of worker_pair that made the call
OpenReturnsRaising(v, n) ==
    /\ op' = "idle"
    /\ attempt' = 0
    /\ ex_attempt' = 0
    /\ orders' = 0
    /\ delay' = NoDelay
    /\ returned' = returned \cup {Acc}
    /\ UNCHANGED flags
    /\ IF v
       THEN /\ ret' = Returned("open_position", Acc, v, 0, n)
            /\ pc' = IF pc = "OpenShort" THEN "OpenLong" ELSE "PreMonitorDelay"
       ELSE /\ ret' = NoRet
            /\ pc' = "Raised"

\* OpenReturns that gives up the cycle when the short leg did not open: the long
\* leg is not attempted
OpenReturnsSkipsLong(v, n) ==
    /\ op' = "idle"
    /\ attempt' = 0
    /\ ex_attempt' = 0
    /\ orders' = 0
    /\ delay' = NoDelay
    /\ ret' = Returned("open_position", Acc, v, 0, n)
    /\ returned' = returned \cup {Acc}
    /\ IF pc = "OpenShort"
       THEN /\ short_position_opened' = v
            /\ long_position_opened' = long_position_opened
            /\ pc' = IF v THEN "OpenLong" ELSE "FailSweepShort"
       ELSE /\ long_position_opened' = v
            /\ short_position_opened' = short_position_opened
            /\ pc' = NextAfterOpen(short_position_opened, v)

\* open_position returns v to worker_pair, which stores it in the leg's flag
OpenReturns(v, n) ==
    /\ op' = "idle"
    /\ attempt' = 0
    /\ ex_attempt' = 0
    /\ orders' = 0
    /\ delay' = NoDelay
    /\ ret' = Returned("open_position", Acc, v, 0, n)
    /\ returned' = returned \cup {Acc}
    /\ IF pc = "OpenShort"
       THEN /\ short_position_opened' = v
            /\ long_position_opened' = long_position_opened
            /\ pc' = "OpenLong"
       ELSE /\ long_position_opened' = v
            /\ short_position_opened' = short_position_opened
            /\ pc' = NextAfterOpen(short_position_opened, v)

\* execute_full_margin_order returned False: open_position retries after a delay
\* in the action-delay window, or gives up after its last attempt
ExecReturnsFalse(n) ==
    IF attempt < retry_attempts - 1
    THEN /\ \E d \in ActionDelays : delay' = [fn |-> "open_position", d |-> d]
         /\ attempt' = attempt + 1
         /\ ex_attempt' = 0
         /\ op' = "quote"
         /\ orders' = n
         /\ ret' = NoRet
         /\ UNCHANGED <<pc, flags, returned>>
    ELSE OpenReturns(FALSE, n)

\* the end of one iteration of execute_full_margin_order that placed nothing: a delay
\* and the next iteration, or the end of the loop (return False)
InnerRetry(n) ==
    IF ex_attempt < retry_attempts - 1
    THEN /\ \E d \in ActionDelays :
              delay' = [fn |-> "execute_full_margin_order", d |-> d]
         /\ ex_attempt' = ex_attempt + 1
         /\ op' = "quote"
         /\ orders' = n
         /\ ret' = NoRet
         /\ UNCHANGED <<pc, flags, returned, attempt>>
    ELSE ExecReturnsFalse(n)

\* open_position is entered
OpenBegin ==
    /\ pc \in {"OpenShort", "OpenLong"}
    /\ op = "idle"
    /\ op' = "quote"
    /\ attempt' = 0
    /\ ex_attempt' = 0
    /\ orders' = 0
    /\ delay' = NoDelay
    /\ ret' = NoRet
    /\ UNCHANGED <<cfg, aside, venue, pc, flags, monitor, qty, balance, cycle, withdrawals>>

\* ExecQuoteOrder that does not return after an accepted order: it goes on to the
\* fallback of the same iteration
ExecQuoteOrderGoesOn ==
    /\ pc \in {"OpenShort", "OpenLong"}
    /\ op = "quote"
    /\ \E m \in get_available_margin(Acc) :
          IF m * cfg.leverage <= 0
          THEN /\ ExecReturnsFalse(orders)
               /\ UNCHANGED venue
          ELSE \E accepted \in BOOLEAN :
                  /\ IF accepted THEN OrderAccepted(Acc) ELSE UNCHANGED venue
                  /\ op' = "quantity"
                  /\ orders' = Counted(orders)
                  /\ delay' = NoDelay
                  /\ ret' = NoRet
                  /\ UNCHANGED <<pc, flags, returned, attempt, ex_attempt>>
    /\ UNCHANGED <<cfg, aside, monitor, qty, balance, withdrawals,
                   deposits, polled, closes, swept, vanished>>

\* one iteration of execute_full_margin_order up to the quoteQuantity order
ExecQuoteOrder ==
    /\ pc \in {"OpenShort", "OpenLong"}
    /\ op = "quote"
    /\ \E m \in get_available_margin(Acc) :
          IF m * cfg.leverage <= 0
          THEN /\ ExecReturnsFalse(orders)
               /\ UNCHANGED venue
          ELSE \E accepted \in BOOLEAN :
                  IF accepted
                  THEN /\ OrderAccepted(Acc)
                       /\ OpenReturns(TRUE, Counted(orders))
                  ELSE /\ op' = "quantity"
                       /\ orders' = Counted(orders)
                       /\ delay' = NoDelay
                       /\ ret' = NoRet
                       /\ UNCHANGED <<venue, pc, flags, returned, attempt, ex_attempt>>
    /\ UNCHANGED <<cfg, aside, monitor, qty, balance, withdrawals,
                   deposits, polled, closes, swept, vanished>>

\* the fallback of the same iteration: price lookup, margin, the quantity order
ExecQuantityOrder ==
    /\ pc \in {"OpenShort", "OpenLong"}
    /\ op = "quantity"
    /\ \E price_positive \in BOOLEAN :
          IF ~price_positive
          THEN /\ InnerRetry(orders)
               /\ UNCHANGED venue
          ELSE \E m \in get_available_margin(Acc) :
                  IF m * cfg.leverage <= 0
                  THEN /\ ExecReturnsFalse(orders)
                       /\ UNCHANGED venue
                  ELSE \E accepted \in BOOLEAN :
                          IF accepted
                          THEN /\ OrderAccepted(Acc)
                               /\ OpenReturns(TRUE, Counted(orders))
                          ELSE /\ InnerRetry(Counted(orders))
                               /\ UNCHANGED venue
    /\ UNCHANGED <<cfg, aside, monitor, qty, balance, withdrawals,
                   deposits, polled, closes, swept, vanished>>

----------------------------------------------------------------------------
(* sweep *)

\* where worker_pair continues after a sweep call
AfterSweep(p) ==
    CASE p = "FailSweepShort" -> "FailSweepLong"
      [] p = "FailSweepLong"  -> "FailWait"
      [] p = "SweepShort"     -> "SweepLong"
      [] p = "SweepOnce"      -> "SweepBetween"
      [] p = "SweepAgain"     -> "SweepDone"
      [] p = "ExceptSweepShort" -> "ExceptSweepLong"
      [] p = "ExceptSweepLong"  -> "ExceptWait"
      [] OTHER                -> "Cooldown"

\* the places of a sweep call: six in worker_pair (two of them in its except
\* branch), and the two calls of SweepTwice
SweepPcs == {"FailSweepShort", "FailSweepLong", "SweepShort", "SweepLong",
             "ExceptSweepShort", "ExceptSweepLong", "SweepOnce", "SweepAgain"}

\* BelowDust with a strict comparison
BelowDustStrict(b) == b < DustThreshold

\* if balance <= 0.1: nothing to withdraw
BelowDust(b) == b <= DustThreshold

\* Halved without the halving
HalvedNot(q) == q

\* Halved that doubles: qty *= 2
HalvedDoubles(q) == q * 2

\* qty *= 0.5, in micro-USDC
Halved(q) == q \div 2

SweepReturns(v, b, n) ==
    /\ op' = "idle"
    /\ attempt' = 0
    /\ qty' = 0
    /\ balance' = 0
    /\ withdrawals' = 0
    /\ delay' = NoDelay
    /\ ret' = Returned("sweep", Acc, v, b, n)
    /\ pc' = AfterSweep(pc)

\* the venue pays the withdrawal out of the available balance
WithdrawalAccepted(a, q) ==
    /\ avail[a] - q \in Balances \cup SweepBalances
    /\ avail' = [avail EXCEPT ![a] = @ - q]
    /\ position' = position

\* the end of one iteration of sweep's loop without a success: sleep 1 s and go on,
\* or leave the loop after the third attempt (return False)
SweepNextAttempt(q, n) ==
    IF attempt < SweepAttempts - 1
    THEN /\ delay' = [fn |-> "sweep", d |-> SweepRetrySleep]
         /\ attempt' = attempt + 1
         /\ op' = "withdraw"
         /\ qty' = q
         /\ withdrawals' = n
         /\ ret' = NoRet
         /\ UNCHANGED <<pc, balance>>
    ELSE SweepReturns(FALSE, balance, n)

\* sweep is entered: the balance is read and compared with the dust threshold
SweepBegin ==
    /\ pc \in SweepPcs
    /\ op = "idle"
    /\ swept' = swept \cup {Acc}
    /\ \E b \in get_available_margin(Acc) :
          IF BelowDust(b)
          THEN SweepReturns(TRUE, b, 0)
          ELSE /\ balance' = b
               /\ qty' = b
               /\ attempt' = 0
               /\ op' = "withdraw"
               /\ withdrawals' = 0
               /\ delay' = NoDelay
               /\ ret' = NoRet
               /\ pc' = pc
    /\ UNCHANGED <<cfg, aside, venue, flags, monitor, ex_attempt, orders,
                   deposits, returned, polled, closes, vanished>>

\* one withdrawal request of the loop, for qty
SweepWithdraw ==
    /\ pc \in SweepPcs
    /\ op = "withdraw"
    /\ \E outcome \in {"accepted", "locked", "error"} :
          CASE outcome = "accepted" ->
                  /\ WithdrawalAccepted(Acc, qty)
                  /\ SweepReturns(TRUE, balance, withdrawals + 1)
            [] outcome = "locked" ->
                  /\ op' = "halve"
                  /\ withdrawals' = withdrawals + 1
                  /\ delay' = NoDelay
                  /\ ret' = NoRet
                  /\ UNCHANGED <<venue, pc, attempt, qty, balance>>
            [] OTHER ->
                  /\ SweepNextAttempt(qty, withdrawals + 1)
                  /\ UNCHANGED venue
    /\ UNCHANGED <<cfg, aside, flags, monitor, ex_attempt, orders, cycle>>

\* after "Insufficient collateral": half the amount, given up below 0.1, else requested
SweepHalve ==
    /\ pc \in SweepPcs
    /\ op = "halve"
    /\ IF Halved(qty) < DustThreshold
       THEN /\ SweepReturns(FALSE, balance, withdrawals)
            /\ UNCHANGED venue
       ELSE \E accepted \in BOOLEAN :
               IF accepted
               THEN /\ WithdrawalAccepted(Acc, Halved(qty))
                    /\ SweepReturns(TRUE, balance, withdrawals + 1)
               ELSE /\ SweepNextAttempt(Halved(qty), withdrawals + 1)
                    /\ UNCHANGED venue
    /\ UNCHANGED <<cfg, aside, flags, monitor, ex_attempt, orders, cycle>>

\* AfterFailWait without the continue: the branch falls through to monitoring
AfterFailWaitFallsThrough == "PreMonitorDelay"

\* the continue of the both-failed branch: back to the top of the loop
AfterFailWait == "DepositShort"

\* time.sleep(3) after the cleanup sweeps of the both-failed branch
FailWait ==
    /\ pc = "FailWait"
    /\ pc' = AfterFailWait
    /\ delay' = NoDelay
    /\ ret' = NoRet
    /\ UNCHANGED <<cfg, aside, venue, op, flags, monitor, loops, cycle, calls>>

----------------------------------------------------------------------------
(* 4. Monitoring *)

\* the delay before the first position check
PreMonitorDelay ==
    /\ pc = "PreMonitorDelay"
    /\ ActionDelays # {}
    /\ pc' = "VisibleShort"
    /\ delay' = NoDelay
    /\ ret' = NoRet
    /\ UNCHANGED <<cfg, aside, venue, op, flags, monitor, loops, cycle, calls>>

\* short_visible: has_position of the short account if it opened; only logged
VisibleShort ==
    /\ pc = "VisibleShort"
    /\ pc' = "VisibleLong"
    /\ delay' = NoDelay
    /\ ret' = NoRet
    /\ UNCHANGED <<cfg, aside, venue, op, flags, monitor, loops, cycle, calls>>

\* Elapsed with the start time taken again in every iteration
ElapsedRestarted(e, interval) == 0

\* time.time() - monitoring_start_time after sleeping check_interval
Elapsed(e, interval) == e + interval

\* MonitorLoop whose timeout leaves out Closing
MonitorLoopSkipsClosing(e) ==
    IF e < max_monitoring_time THEN "PollShort" ELSE "PreSweepDelay"

\* while time.time() - monitoring_start_time < max_monitoring_time
MonitorLoop(e) == IF e < max_monitoring_time THEN "PollShort" ELSE "CloseShort"

\* long_visible, then monitoring_start_time = time.time() and the first loop test
VisibleLong ==
    /\ pc = "VisibleLong"
    /\ elapsed' = 0
    /\ pc' = MonitorLoop(0)
    /\ delay' = NoDelay
    /\ ret' = NoRet
    /\ UNCHANGED <<cfg, aside, venue, op, flags, short_has_position, long_has_position,
                   loops, cycle, calls>>

\* the chain of tests on one poll's results
MonitorDecision(spo, lpo, shp, lhp) ==
    IF spo /\ ~shp THEN "short_gone"
    ELSE IF lpo /\ ~lhp THEN "long_gone"
    ELSE IF shp /\ lhp THEN "continue"
    ELSE IF ~shp /\ ~lhp THEN "both_gone"
    ELSE "one_gone"

\* short_has_position = short_acc.has_position(symbol)
PollShort ==
    /\ pc = "PollShort"
    /\ \E r \in has_position("short") : short_has_position' = r
    /\ polled' = TRUE
    /\ pc' = "PollLong"
    /\ delay' = NoDelay
    /\ ret' = NoRet
    /\ UNCHANGED <<cfg, aside, venue, op, flags, long_has_position, elapsed, loops, calls,
                   deposits, returned, closes, swept, vanished>>

\* long_has_position = long_acc.has_position(symbol), the tests, and either the sleep
\* and the next loop test or the break
PollLong ==
    /\ pc = "PollLong"
    /\ \E r \in has_position("long") :
          /\ long_has_position' = r
          /\ IF MonitorDecision(short_position_opened, long_position_opened,
                                short_has_position, r) = "continue"
             THEN /\ elapsed' = Elapsed(elapsed, cfg.check_interval)
                  /\ pc' = MonitorLoop(Elapsed(elapsed, cfg.check_interval))
                  /\ vanished' = vanished
             ELSE /\ elapsed' = elapsed
                  /\ pc' = "CloseShort"
                  /\ vanished' =
                        IF short_position_opened /\ long_position_opened
                           /\ short_has_position # r
                        THEN (IF r THEN "short" ELSE "long")
                        ELSE "none"
    /\ delay' = NoDelay
    /\ ret' = NoRet
    /\ UNCHANGED <<cfg, aside, venue, op, flags, short_has_position, loops, calls,
                   deposits, returned, polled, closes, swept>>

----------------------------------------------------------------------------
(* 5. Closing: the worker's check and close_position *)

\* the places of a close_position call: two in Closing, two in the except branch
ClosePcs == {"CloseShort", "CloseLong", "ExceptCloseShort", "ExceptCloseLong"}

\* where worker_pair continues after the statement of a leg's close
AfterClose(p) ==
    CASE p = "CloseShort"       -> "CloseLong"
      [] p = "ExceptCloseShort" -> "ExceptCloseLong"
      [] p = "ExceptCloseLong"  -> "ExceptSweepShort"
      [] OTHER                  -> "PreSweepDelay"

\* CloseReturns whose failure ends the cycle: the worker goes to its cooldown
CloseReturnsEndsCycle(v) ==
    /\ op' = "idle"
    /\ delay' = NoDelay
    /\ ret' = Returned("close_position", Acc, v, 0, 0)
    /\ pc' = IF v THEN AfterClose(pc) ELSE "Cooldown"

\* close_position returns v to worker_pair, which does not read it
CloseReturns(v) ==
    /\ op' = "idle"
    /\ delay' = NoDelay
    /\ ret' = Returned("close_position", Acc, v, 0, 0)
    /\ pc' = AfterClose(pc)

\* a reduce-only order closed the position: its collateral, or nothing, is released
PositionClosed(a) ==
    /\ position[a]
    /\ position' = [position EXCEPT ![a] = FALSE]
    /\ \E p \in {0, cfg.deposit_amt} :
          /\ avail[a] + p \in Balances
          /\ avail' = [avail EXCEPT ![a] = @ + p]

\* if <leg>_position_opened and <leg>_acc.has_position(symbol): close_position
CloseSurviving ==
    /\ pc \in {"CloseShort", "CloseLong"}
    /\ op = "idle"
    /\ IF Opened(Acc)
       THEN \E r \in has_position(Acc) :
               IF r THEN op' = "close_check" /\ pc' = pc
                    ELSE op' = op /\ pc' = AfterClose(pc)
       ELSE op' = op /\ pc' = AfterClose(pc)
    /\ delay' = NoDelay
    /\ ret' = NoRet
    /\ UNCHANGED <<cfg, aside, venue, flags, monitor, loops, cycle, calls>>

\* ClosePositionCheck without the has_position test
ClosePositionUnchecked ==
    /\ pc \in ClosePcs
    /\ op = "close_check"
    /\ op' = "close_sized"
    /\ delay' = NoDelay
    /\ ret' = NoRet
    /\ pc' = pc
    /\ UNCHANGED <<cfg, aside, venue, flags, monitor, loops, cycle, calls>>

\* close_position: if not self.has_position(symbol): return True
ClosePositionCheck ==
    /\ pc \in ClosePcs
    /\ op = "close_check"
    /\ \E r \in has_position(Acc) :
          IF ~r THEN CloseReturns(TRUE)
          ELSE /\ op' = "close_sized"
               /\ delay' = NoDelay
               /\ ret' = NoRet
               /\ pc' = pc
    /\ UNCHANGED <<cfg, aside, venue, flags, monitor, loops, cycle, calls>>

\* the position query for the size and the reduce-only order of that size
CloseSizedOrder ==
    /\ pc \in ClosePcs
    /\ op = "close_sized"
    /\ \E outcome \in {"unsized", "accepted", "rejected"} :
          CASE outcome = "unsized" ->
                  /\ op' = "close_fixed"
                  /\ delay' = NoDelay
                  /\ ret' = NoRet
                  /\ UNCHANGED <<venue, pc, closes>>
            [] outcome = "accepted" ->
                  /\ PositionClosed(Acc)
                  /\ closes' = closes \cup {Acc}
                  /\ CloseReturns(TRUE)
            [] OTHER ->
                  /\ position[Acc]
                  /\ closes' = closes \cup {Acc}
                  /\ op' = "close_fixed"
                  /\ delay' = NoDelay
                  /\ ret' = NoRet
                  /\ UNCHANGED <<venue, pc>>
    /\ UNCHANGED <<cfg, aside, flags, monitor, loops, calls,
                   deposits, returned, polled, swept, vanished>>

\* the fallback reduce-only order of the fixed size 3.58
CloseFixedOrder ==
    /\ pc \in ClosePcs
    /\ op = "close_fixed"
    /\ closes' = closes \cup {Acc}
    /\ \E outcome \in {"closed", "partial", "rejected"} :
          CASE outcome = "closed" ->
                  /\ PositionClosed(Acc)
                  /\ CloseReturns(TRUE)
            [] outcome = "partial" ->
                  /\ CloseReturns(TRUE)
                  /\ UNCHANGED venue
            [] OTHER ->
                  /\ CloseReturns(FALSE)
                  /\ UNCHANGED venue
    /\ UNCHANGED <<cfg, aside, flags, monitor, loops, calls,
                   deposits, returned, polled, swept, vanished>>

----------------------------------------------------------------------------
(* 6.-8. PreSweepDelay, Sweeping (SweepBegin ... above), Cooldown *)

PreSweepDelay ==
    /\ pc = "PreSweepDelay"
    /\ ActionDelays # {}
    /\ pc' = "SweepShort"
    /\ delay' = NoDelay
    /\ ret' = NoRet
    /\ UNCHANGED <<cfg, aside, venue, op, flags, monitor, loops, cycle, calls>>

\* LoopBack of a worker that returns after one cycle
LoopLeft == "Returned"

\* the end of the body of while True: the next cycle
LoopBack == "DepositShort"

Cooldown ==
    /\ pc = "Cooldown"
    /\ ActionDelays # {}
    /\ pc' = LoopBack
    /\ delay' = NoDelay
    /\ ret' = NoRet
    /\ UNCHANGED <<cfg, aside, venue, op, flags, monitor, loops, cycle, calls>>

----------------------------------------------------------------------------
(* The venue liquidates an open position *)
Liquidate(a) ==
    /\ position[a]
    /\ position' = [position EXCEPT ![a] = FALSE]
    /\ UNCHANGED <<cfg, aside, avail, pc, op, flags, monitor, loops, cycle, calls, delay, ret>>

Worker ==
    \/ DepositShort \/ DepositDelay \/ DepositLong \/ PreOpenDelay
    \/ OpenBegin \/ ExecQuoteOrder \/ ExecQuantityOrder
    \/ SweepBegin \/ SweepWithdraw \/ SweepHalve \/ FailWait
    \/ PreMonitorDelay \/ VisibleShort \/ VisibleLong \/ PollShort \/ PollLong
    \/ CloseSurviving \/ ClosePositionCheck \/ CloseSizedOrder \/ CloseFixedOrder
    \/ PreSweepDelay \/ Cooldown

Next == Worker \/ \E a \in Accounts : Liquidate(a)

Spec == Init /\ [][Next]_vars

\* the worker thread keeps running: every remote call and every sleep returns
FairSpec == Spec /\ WF_vars(Worker)

----------------------------------------------------------------------------
(* The except branch of the cycle: a statement of worker_pair inside the try *)
(* raises an exception that no agent operation caught.                       *)

\* time.sleep(10) at the end of the except branch, in seconds
ExceptSleep == 10

\* the places of the except branch
ExceptPcs == {"ExceptCloseShort", "ExceptCloseLong", "ExceptSweepShort",
              "ExceptSweepLong", "ExceptWait"}

\* Unexpected without the try: the exception ends worker_pair and its thread
UnexpectedUncaught ==
    /\ pc \notin ExceptPcs
    /\ op = "idle"
    /\ pc' = "Returned"
    /\ short_position_opened' = FALSE
    /\ long_position_opened' = FALSE
    /\ short_has_position' = FALSE
    /\ long_has_position' = FALSE
    /\ elapsed' = 0
    /\ deposits' = {}
    /\ returned' = {}
    /\ polled' = FALSE
    /\ closes' = {}
    /\ swept' = {}
    /\ vanished' = "none"
    /\ delay' = NoDelay
    /\ ret' = NoRet
    /\ UNCHANGED <<cfg, aside, venue, op, loops, calls>>

\* a statement of the try body raises: except Exception takes over.  The branch
\* reads none of the locals of the cycle, which the next cycle sets again; they
\* are cleared here, and the history starts again for the cleanup.
Unexpected ==
    /\ pc \notin ExceptPcs
    /\ op = "idle"
    /\ pc' = "ExceptCloseShort"
    /\ short_position_opened' = FALSE
    /\ long_position_opened' = FALSE
    /\ short_has_position' = FALSE
    /\ long_has_position' = FALSE
    /\ elapsed' = 0
    /\ deposits' = {}
    /\ returned' = {}
    /\ polled' = FALSE
    /\ closes' = {}
    /\ swept' = {}
    /\ vanished' = "none"
    /\ delay' = NoDelay
    /\ ret' = NoRet
    /\ UNCHANGED <<cfg, aside, venue, op, loops, calls>>

\* if <leg>_acc.has_position(symbol): <leg>_acc.close_position(symbol)
ExceptClose ==
    /\ pc \in {"ExceptCloseShort", "ExceptCloseLong"}
    /\ op = "idle"
    /\ \E r \in has_position(Acc) :
          IF r THEN op' = "close_check" /\ pc' = pc
               ELSE op' = op /\ pc' = AfterClose(pc)
    /\ delay' = NoDelay
    /\ ret' = NoRet
    /\ UNCHANGED <<cfg, aside, venue, flags, monitor, loops, cycle, calls>>

\* time.sleep(10), then the next iteration of while True
ExceptWait ==
    /\ pc = "ExceptWait"
    /\ pc' = LoopBack
    /\ delay' = [fn |-> "worker_pair", d |-> ExceptSleep]
    /\ ret' = NoRet
    /\ UNCHANGED <<cfg, aside, venue, op, flags, monitor, loops, cycle, calls>>

CycleFailureNext == Next \/ Unexpected \/ ExceptClose \/ ExceptWait

CycleFailure == Init /\ [][CycleFailureNext]_vars

----------------------------------------------------------------------------
(* sweep called twice in succession on one sub-account, with nothing else     *)
(* touching its balance: SubAccount.sweep applied to a chosen balance.        *)

SweepTwiceInit ==
    /\ cfg \in Configs
    /\ position = [a \in Accounts |-> FALSE]
    /\ \E b \in SweepBalances : avail = [a \in Accounts |-> IF a = "long" THEN b ELSE 0]
    /\ pc = "SweepOnce"
    /\ op = "idle"
    /\ short_position_opened = FALSE
    /\ long_position_opened = FALSE
    /\ short_has_position = FALSE
    /\ long_has_position = FALSE
    /\ elapsed = 0
    /\ attempt = 0
    /\ ex_attempt = 0
    /\ qty = 0
    /\ balance = 0
    /\ deposits = {}
    /\ returned = {}
    /\ polled = FALSE
    /\ closes = {}
    /\ swept = {}
    /\ vanished = "none"
    /\ orders = 0
    /\ withdrawals = 0
    /\ delay = NoDelay
    /\ ret = NoRet
    /\ prev = NoRet
    /\ NoAgentCall
    /\ PairsStart
    /\ NoSizing

\* the first call has returned: the second call follows at once
SweepBetween ==
    /\ pc = "SweepBetween"
    /\ prev' = ret
    /\ pc' = "SweepAgain"
    /\ delay' = NoDelay
    /\ ret' = NoRet
    /\ UNCHANGED <<cfg, agent, pairs, sizing, venue, op, flags, monitor, loops, cycle, calls>>

SweepTwiceNext == SweepBegin \/ SweepWithdraw \/ SweepHalve \/ SweepBetween

SweepTwice == SweepTwiceInit /\ [][SweepTwiceNext]_vars

----------------------------------------------------------------------------
(* has_position and close_position on the venue's answer.  A symbol is the  *)
(* sequence of its name parts and separators; a quantity is in hundredths;  *)
(* netQuantity is <<n>> for the string of the number n and <<>> for an      *)
(* empty value.                                                             *)

Separators == {"_", "-"}

RequestedSymbols ==
    { <<"SOL", "_", "USDC">>, <<"SOL", "-", "USDC">>,
      <<"SOL", "_", "USDC", "_", "PERP">> }

\* symbols of listed positions; <<>> is a position without the "symbol" key
ListedSymbols ==
    RequestedSymbols \cup
    { <<"SOL", "-", "USDC", "-", "PERP">>, <<"SOL", "-", "USDC", "_", "PERP">>, <<>> }

NetQuantities == { <<>>, <<-150>>, <<200>> }

ListedPositions == [symbol : ListedSymbols, netQuantity : NetQuantities]

PositionLists == UNION { [1 .. n -> ListedPositions] : n \in 0 .. MaxListed }

\* the answers to GET api/v1/position while the venue lists l: the list, a dict with
\* the list under "data", a dict without "data", or an exception
Responses(l) == { [shape |-> sh, positions |-> l] : sh \in {"list", "data", "other", "raise"} }

\* str.replace(old, new)
Replace(s, old, new) == [i \in DOMAIN s |-> IF s[i] = old THEN new ELSE s[i]]

\* symbol_variants with the symbol only
symbol_variants_exact(s) == {s}

\* symbol_variants = [symbol, symbol.replace("_", "-"), symbol.replace("-", "_")]
symbol_variants(s) == {s, Replace(s, "_", "-"), Replace(s, "-", "_")}

\* positions = positions_response["data"], or the response that is a list, or []
ResponsePositions(r) == IF r.shape \in {"list", "data"} THEN r.positions ELSE <<>>

\* has_position on the answer r: True at the first position whose symbol is a variant
has_position_on(r, s) ==
    IF r.shape = "raise"
    THEN has_position_except
    ELSE \E i \in DOMAIN ResponsePositions(r) :
            ResponsePositions(r)[i].symbol \in symbol_variants(s)

Abs(n) == IF n < 0 THEN -n ELSE n

\* side = "Ask" if self.is_long else "Bid", and the reduce-only market order
CloseOrder(long, q) ==
    [orderType |-> "Market", side |-> IF long THEN "Ask" ELSE "Bid",
     reduceOnly |-> TRUE, quantity |-> q]

AgentCallInit ==
    /\ WorkerStart
    /\ cfg.min_delay = cfg.max_delay
    /\ prev = NoRet
    /\ symbol \in RequestedSymbols
    /\ is_long \in BOOLEAN
    /\ listed \in PositionLists
    /\ call \in {"has_position", "close_position"}
    /\ stage = "check"
    /\ scan = 0
    /\ result = FALSE
    /\ placed = <<>>
    /\ asked = <<>>
    /\ PairsStart
    /\ NoSizing

worker == <<cfg, venue, pc, op, flags, monitor, loops, cycle, calls, delay, ret>>

\* has_position(symbol): one query, no retry
has_position_call ==
    /\ call = "has_position"
    /\ stage = "check"
    /\ \E r \in Responses(listed) :
          /\ asked' = Append(asked, r.shape)
          /\ result' = has_position_on(r, symbol)
    /\ stage' = "done"
    /\ UNCHANGED <<worker, prev, pairs, sizing, symbol, is_long, listed, call, scan, placed>>

\* close_position: if not self.has_position(symbol): return True
close_position_check ==
    /\ call = "close_position"
    /\ stage = "check"
    /\ \E r \in Responses(listed) :
          /\ asked' = Append(asked, r.shape)
          /\ IF has_position_on(r, symbol)
             THEN stage' = "query" /\ result' = result
             ELSE stage' = "done" /\ result' = TRUE
    /\ UNCHANGED <<worker, prev, pairs, sizing, symbol, is_long, listed, call, scan, placed>>

\* the query for the size: its answer is iterated as it is, so that a dict or an
\* exception ends in the except branch and the fixed-size order
close_position_query ==
    /\ call = "close_position"
    /\ stage = "query"
    /\ \E r \in Responses(listed) :
          /\ asked' = Append(asked, r.shape)
          /\ IF r.shape = "list"
             THEN stage' = "sized" /\ scan' = 1
             ELSE stage' = "fixed" /\ scan' = scan
    /\ UNCHANGED <<worker, prev, pairs, sizing, symbol, is_long, listed, call, result, placed>>

\* one iteration of for pos in positions: the order for abs(netQuantity) of a position
\* whose symbol equals the symbol asked for
close_position_sized ==
    /\ call = "close_position"
    /\ stage = "sized"
    /\ IF scan > Len(listed)
       THEN /\ stage' = "fixed"
            /\ UNCHANGED <<scan, result, placed>>
       ELSE IF listed[scan].symbol = symbol /\ listed[scan].netQuantity # <<>>
            THEN \E accepted \in BOOLEAN :
                    /\ placed' = Append(placed,
                                        CloseOrder(is_long, Abs(listed[scan].netQuantity[1])))
                    /\ IF accepted
                       THEN stage' = "done" /\ result' = TRUE /\ scan' = scan
                       ELSE stage' = stage /\ result' = result /\ scan' = scan + 1
            ELSE /\ scan' = scan + 1
                 /\ UNCHANGED <<stage, result, placed>>
    /\ UNCHANGED <<worker, prev, pairs, sizing, symbol, is_long, listed, call, asked>>

\* the order of the fixed size: True when it is accepted, False when it raises
close_position_fixed ==
    /\ call = "close_position"
    /\ stage = "fixed"
    /\ \E accepted \in BOOLEAN :
          /\ placed' = Append(placed, CloseOrder(is_long, fixed_size))
          /\ result' = accepted
    /\ stage' = "done"
    /\ UNCHANGED <<worker, prev, pairs, sizing, symbol, is_long, listed, call, scan, asked>>

AgentCallNext ==
    \/ has_position_call
    \/ close_position_check \/ close_position_query
    \/ close_position_sized \/ close_position_fixed

AgentCall == AgentCallInit /\ [][AgentCallNext]_vars

----------------------------------------------------------------------------
(* Two or more pair workers interleaved.  Each step is one step of one      *)
(* worker's cycle; the venue chooses what its remote calls answer.          *)

\* get_market_info: self._market_cache[symbol] = market_info, when it fetched it
CacheFilled(c, fetched) == IF fetched THEN "cached" ELSE c

\* top of while True: the flags are reset, the two deposits are requested
PairDeposit(w) ==
    /\ lifecycle[w] = "Depositing"
    /\ opened' = [opened EXCEPT ![w] = [a \in Accounts |-> FALSE]]
    /\ lifecycle' = [lifecycle EXCEPT ![w] = "Opening"]
    /\ UNCHANGED market_cache

\* the two open_position calls: each returns True or False, and each may have gone
\* through the quantity fallback, which fetches the market info
PairOpen(w) ==
    /\ lifecycle[w] = "Opening"
    /\ \E s, l, fs, fl \in BOOLEAN :
          /\ opened' = [opened EXCEPT ![w] = [a \in Accounts |-> IF a = "short" THEN s ELSE l]]
          /\ market_cache' =
                [market_cache EXCEPT ![CacheOf(w, "short")] = CacheFilled(@, fs),
                                     ![CacheOf(w, "long")] = CacheFilled(@, fl)]
          /\ lifecycle' = [lifecycle EXCEPT ![w] =
                              IF s \/ l THEN "Monitoring" ELSE "FailSweeping"]

\* the monitoring loop ends: break or 24 h
PairMonitor(w) ==
    /\ lifecycle[w] = "Monitoring"
    /\ lifecycle' = [lifecycle EXCEPT ![w] = "Closing"]
    /\ UNCHANGED <<opened, market_cache>>

PairClose(w) ==
    /\ lifecycle[w] = "Closing"
    /\ lifecycle' = [lifecycle EXCEPT ![w] = "Sweeping"]
    /\ UNCHANGED <<opened, market_cache>>

\* the two sweep calls, after Closing or in the both-failed branch
PairSweep(w) ==
    /\ lifecycle[w] \in {"Sweeping", "FailSweeping"}
    /\ lifecycle' = [lifecycle EXCEPT ![w] =
                        IF @ = "Sweeping" THEN "Cooldown" ELSE "Depositing"]
    /\ UNCHANGED <<opened, market_cache>>

PairCooldown(w) ==
    /\ lifecycle[w] = "Cooldown"
    /\ lifecycle' = [lifecycle EXCEPT ![w] = "Depositing"]
    /\ UNCHANGED <<opened, market_cache>>

PairStep(w) ==
    /\ \/ PairDeposit(w) \/ PairOpen(w) \/ PairMonitor(w)
       \/ PairClose(w) \/ PairSweep(w) \/ PairCooldown(w)
    /\ actor' = w
    /\ UNCHANGED <<worker, prev, agent, sizing>>

PairsInit ==
    /\ WorkerStart
    /\ cfg.min_delay = cfg.max_delay
    /\ prev = NoRet
    /\ NoAgentCall
    /\ PairsStart
    /\ NoSizing

PairsNext == \E w \in Pairs : PairStep(w)

PairWorkers == PairsInit /\ [][PairsNext]_vars

----------------------------------------------------------------------------
(* The prices of the fallback sizing: one trader computes base quantities   *)
(* for one symbol again and again while the venue's last price moves.       *)

Prices == (TickerFallback - MaxPriceSpread) .. (TickerFallback + MaxPriceSpread)

\* get_ticker_price: the venue's price now, or 138.0 when every read failed
get_ticker_price == {ticker, TickerFallback}

\* the "lastPrice" of the market's entry in the answer to api/v1/markets: absent,
\* "0", or the price now
MarketLastPrices == {<<>>, <<0>>, <<ticker>>}

\* the venue's last price changes
TickerMoves ==
    /\ \E p \in Prices \ {ticker} : ticker' = p
    /\ UNCHANGED <<worker, prev, agent, pairs, cached_info, sized>>

\* raw_qty = margin / price is computed with price p; fetched tells whether this
\* call read p from the venue
Sized(p, fetched) ==
    sized' = [price |-> p, ticker |-> ticker, fetched |-> fetched, n |-> sized.n + 1]

\* get_market_info when symbol is in self._market_cache: the cached entry, its
\* lastPrice read again only when it is missing or "0"; then price = lastPrice
get_market_info_cached ==
    IF cached_info[1] = 0
    THEN \E p \in get_ticker_price :
            /\ cached_info' = <<p>>
            /\ Sized(p, TRUE)
    ELSE /\ cached_info' = cached_info
         /\ Sized(cached_info[1], FALSE)

\* get_market_info when symbol is not cached: the market's entry, its lastPrice
\* filled from get_ticker_price when missing or "0", stored in the cache (the
\* fallback entries of lines 152-162 are filled the same way)
get_market_info_fetched ==
    \E m \in MarketLastPrices :
        IF m = <<>> \/ m = <<0>>
        THEN \E p \in get_ticker_price :
                /\ cached_info' = <<p>>
                /\ Sized(p, TRUE)
        ELSE /\ cached_info' = m
             /\ Sized(m[1], TRUE)

\* the fallback of execute_full_margin_order: info = self.get_market_info(symbol),
\* price = float(info["lastPrice"]), the quantity from margin / price
FallbackSizing ==
    /\ sized.n < MaxSizings
    /\ IF cached_info # <<>> THEN get_market_info_cached ELSE get_market_info_fetched
    /\ UNCHANGED <<worker, prev, agent, pairs, ticker>>

SizingInit ==
    /\ WorkerStart
    /\ prev = NoRet
    /\ NoAgentCall
    /\ PairsStart
    /\ ticker \in Prices
    /\ cached_info = <<>>
    /\ sized = NoSized

SizingNext == TickerMoves \/ FallbackSizing

Sizing == SizingInit /\ [][SizingNext]_vars

----------------------------------------------------------------------------
(* The steps of the lifecycle *)

Phase(p) ==
    CASE p \in {"DepositShort", "DepositDelay", "DepositLong"} -> "Depositing"
      [] p \in {"OpenShort", "OpenLong"} -> "Opening"
      [] p \in {"PreMonitorDelay", "VisibleShort", "VisibleLong",
                "PollShort", "PollLong"} -> "Monitoring"
      [] p \in {"CloseShort", "CloseLong"} -> "Closing"
      [] p \in {"SweepShort", "SweepLong"} -> "Sweeping"
      [] p \in {"FailSweepShort", "FailSweepLong"} -> "FailSweeping"
      [] OTHER -> p

Polling == pc \in {"PollShort", "PollLong"}

BothOpensFailed ==
    returned = Accounts /\ ~short_position_opened /\ ~long_position_opened

----------------------------------------------------------------------------
\* one step of the worker moves pc inside a step of the lifecycle or to the next one
NextPhase ==
    LET a == Phase(pc)
        b == Phase(pc')
    IN  \/ a = b
        \/ /\ a = "Opening"
           /\ short_position_opened' \/ long_position_opened'
           /\ b = "Monitoring"
        \/ /\ a = "Opening"
           /\ ~(short_position_opened' \/ long_position_opened')
           /\ b = "FailSweeping"
        \/ <<a, b>> \in { <<"Depositing", "PreOpenDelay">>,
                          <<"PreOpenDelay", "Opening">>,
                          <<"Monitoring", "Closing">>,
                          <<"Closing", "PreSweepDelay">>,
                          <<"PreSweepDelay", "Sweeping">>,
                          <<"Sweeping", "Cooldown">>,
                          <<"Cooldown", "Depositing">>,
                          <<"FailSweeping", "FailWait">>,
                          <<"FailWait", "Depositing">> }

(* C1: in a cycle in which a leg opens the steps follow one another in the  *)
(* order Depositing, PreOpenDelay, Opening, Monitoring, Closing,            *)
(* PreSweepDelay, Sweeping, Cooldown, and then Depositing again; no order   *)
(* is placed before both deposit attempts of the cycle, and no monitoring   *)
(* poll is made before both open_position calls have returned.              *)
C1_LifecycleOrder ==
    /\ [](orders > 0 => deposits = Accounts)
    /\ [](Phase(pc) = "Opening" => deposits = Accounts)
    /\ [](polled => returned = Accounts)
    /\ [](Phase(pc) \in {"Closing", "PreSweepDelay", "Sweeping", "Cooldown"} => polled)
    /\ [][NextPhase]_vars

C1_Witness ==
    /\ pc = "Cooldown"
    /\ short_position_opened \/ long_position_opened
    /\ polled
    /\ swept = Accounts

(* C2: when both open_position calls of a cycle returned False, the worker  *)
(* sweeps both sub-accounts, waits and restarts at Depositing, and makes no *)
(* monitoring poll and issues no close order in that cycle.                 *)
C2_BothFailedRestarts ==
    /\ [](BothOpensFailed =>
            /\ pc \in {"FailSweepShort", "FailSweepLong", "FailWait", "DepositShort"}
            /\ ~polled
            /\ closes = {}
            /\ pc \in {"FailWait", "DepositShort"} => swept = Accounts)
    /\ [][pc = "FailWait" /\ pc' # pc => pc' = "DepositShort"]_vars

C2_Witness ==
    /\ pc = "FailWait"
    /\ BothOpensFailed
    /\ swept = Accounts
    /\ ~polled

(* C3: when both legs were opened and a monitoring poll reports exactly one *)
(* leg absent and the other present, the worker leaves Monitoring on that   *)
(* poll, issues a close for the surviving leg only, never for the vanished  *)
(* one, then sweeps both sub-accounts and restarts.                         *)
C3_CloseOnlySurvivor ==
    vanished # "none" =>
        /\ ~Polling
        /\ vanished \notin closes
        /\ pc = "Cooldown" => swept = Accounts

(* C4: the worker never leaves Monitoring while both legs are open on the   *)
(* venue, unless the maximum monitoring duration has elapsed.               *)
C4_NoExitWhileBothOpen ==
    [][(Polling /\ pc' = "CloseShort")
         => \/ ~(position["short"] /\ position["long"])
            \/ elapsed' >= max_monitoring_time]_vars

(* C5: Monitoring ends: the loop polls only while less than the maximum     *)
(* monitoring duration has elapsed, and from every poll the worker reaches  *)
(* Closing, also when both legs are reported present at every poll.         *)
C5_MonitoringEnds ==
    /\ [](Polling => elapsed < max_monitoring_time)
    /\ (Polling ~> pc = "CloseShort")

C5_Witness ==
    /\ pc = "CloseShort"
    /\ elapsed >= max_monitoring_time
    /\ short_has_position
    /\ long_has_position

(* C6: no leg opened in a cycle is still open on the venue when the worker  *)
(* starts its next cycle at Depositing.                                     *)
C6_NoLegLeftOpen ==
    pc = "DepositShort" =>
        /\ short_position_opened => ~position["short"]
        /\ long_position_opened => ~position["long"]

(* C7: whatever remote calls fail, the worker always starts another cycle   *)
(* at Depositing.                                                           *)
C7_AlwaysAnotherCycle == []<>(pc = "DepositShort")

C7_Witness ==
    /\ pc = "DepositShort"
    /\ BothOpensFailed
    /\ swept = Accounts

(* C8: one call of open_position places at most retry_attempts market       *)
(* orders.                                                                  *)
C8_AtMostRetryAttempts == orders <= retry_attempts

(* C9: every delay between two attempts of open_position's order retries    *)
(* and of sweep's withdrawal retries lies in [min_delay, max_delay].        *)
C9_DelayInWindow ==
    delay.fn # "none" => delay.d \in cfg.min_delay .. cfg.max_delay

(* C10: sweep called with an available balance at or below the dust         *)
(* threshold returns True and requests no withdrawal.                       *)
C10_DustSweep ==
    /\ [](ret.fn = "sweep" /\ ret.balance <= DustThreshold
            => ret.val /\ ret.n = 0)
    /\ [][(/\ pc \in SweepPcs
           /\ op = "idle"
           /\ avail[Acc] <= DustThreshold
           /\ position' = position)
          => /\ ret' = Returned("sweep", Acc, TRUE, ret'.balance, 0)
             /\ avail' = avail
             /\ pc' = AfterSweep(pc)]_vars

C10_Witness ==
    /\ ret.fn = "sweep"
    /\ ret.val
    /\ ret.n = 0
    /\ ret.balance = DustThreshold
    /\ avail[ret.acc] = DustThreshold

(* C11: sweep called twice in succession on a sub-account whose balance     *)
(* nothing else changes: the second call requests no withdrawal.  Stated    *)
(* for the first call that returned True after a withdrawal of its own.     *)
C11_SweepIdempotent ==
    (pc = "SweepDone" /\ prev.fn = "sweep" /\ prev.val /\ prev.n > 0) => ret.n = 0

RECURSIVE HalvedTimes(_, _)
\* q after k halvings, in micro-USDC
HalvedTimes(q, k) == IF k = 0 THEN q ELSE HalvedTimes(q \div 2, k - 1)

(* C12: after a withdrawal rejected for locked collateral sweep requests    *)
(* half the amount; when that withdrawal is accepted sweep returns True;    *)
(* otherwise it goes on with the halved amount or returns False; one call   *)
(* halves at most SweepAttempts times.                                      *)
C12_HalvingBounded ==
    /\ [](pc \in SweepPcs /\ op \in {"withdraw", "halve"} =>
            /\ attempt < SweepAttempts
            /\ \E k \in 0 .. attempt : qty = HalvedTimes(balance, k))
    /\ [][(pc \in SweepPcs /\ op = "halve") =>
            \/ /\ ret' = Returned("sweep", Acc, TRUE, balance, withdrawals + 1)
               /\ qty \div 2 >= DustThreshold
               /\ avail' = [avail EXCEPT ![Acc] = @ - (qty \div 2)]
            \/ /\ op' = "withdraw"
               /\ qty' = qty \div 2
               /\ qty' >= DustThreshold
               /\ attempt' = attempt + 1
               /\ avail' = avail
            \/ /\ ret'.fn = "sweep" /\ ~ret'.val
               /\ avail' = avail
               /\ qty \div 2 < DustThreshold \/ attempt = SweepAttempts - 1]_vars

C12_Witness ==
    /\ pc = "SweepBetween"
    /\ ret.fn = "sweep"
    /\ ret.val
    /\ ret.n = 2 * SweepAttempts
    /\ avail[ret.acc] = ret.balance - HalvedTimes(ret.balance, SweepAttempts)

\* where worker_pair goes on when the agent operation in progress at p returns v
Continues(p, v) ==
    CASE p = "OpenShort" -> "OpenLong"
      [] p = "OpenLong" ->
            IF short_position_opened \/ v THEN "PreMonitorDelay" ELSE "FailSweepShort"
      [] p \in {"CloseShort", "CloseLong"} -> AfterClose(p)
      [] OTHER -> AfterSweep(p)

(* C13: open_position, has_position, close_position and sweep never raise   *)
(* to worker_pair: whatever remote calls fail, each call ends, its result   *)
(* is a boolean, and the worker goes on at the statement after the call.    *)
C13_NeverRaises ==
    /\ [](\A a \in Accounts : has_position(a) \subseteq BOOLEAN)
    /\ [](short_has_position \in BOOLEAN /\ long_has_position \in BOOLEAN)
    /\ [](ret.fn # "none" => ret.val \in BOOLEAN /\ op = "idle")
    /\ [][(op # "idle" /\ op' = "idle") =>
            /\ ret'.fn \in {"open_position", "close_position", "sweep"}
            /\ ret'.acc = Acc
            /\ ret'.val \in BOOLEAN
            /\ pc' = Continues(pc, ret'.val)]_vars
    /\ []<>(op = "idle")

C13_Witness ==
    /\ ret.fn = "open_position"
    /\ ~ret.val
    /\ ret.n = MaxOrdersCounted
    /\ pc = "OpenLong"

\* s written with the separator sep throughout
SeparatorVariant(s, sep) == [i \in DOMAIN s |-> IF s[i] \in Separators THEN sep ELSE s[i]]

\* t is s, or s under one of the accepted separators
SameSymbol(t, s) == t = s \/ \E sep \in Separators : t = SeparatorVariant(s, sep)

(* C14: has_position(symbol) returns True when the venue's position list    *)
(* holds a position whose symbol is the symbol asked for or that symbol     *)
(* written with underscores or with hyphens, and False when no listed       *)
(* position is.                                                             *)
C14_SeparatorVariants ==
    (call = "has_position" /\ stage = "done" /\ asked[1] \in {"list", "data"}) =>
        result = (\E i \in DOMAIN listed : SameSymbol(listed[i].symbol, symbol))

C14_Witness ==
    /\ call = "has_position"
    /\ stage = "done"
    /\ result
    /\ Len(listed) = MaxListed
    /\ \A i \in DOMAIN listed : listed[i].symbol # symbol
    /\ symbol = <<"SOL", "_", "USDC", "_", "PERP">>

(* C15: when the position query fails has_position returns False; it does   *)
(* not raise and does not query again.                                      *)
C15_QueryFailureIsFalse ==
    (call = "has_position" /\ stage = "done") =>
        /\ Len(asked) = 1
        /\ result \in BOOLEAN
        /\ asked[1] = "raise" => ~result

C15_Witness ==
    /\ call = "has_position"
    /\ stage = "done"
    /\ asked = <<"raise">>
    /\ ~result
    /\ \E i \in DOMAIN listed : listed[i].symbol = symbol

\* the sub-account holds position i for the symbol, with a size
Held(i) == SameSymbol(listed[i].symbol, symbol) /\ listed[i].netQuantity # <<>>

(* C17: close_position on a sub-account that holds a position for the       *)
(* symbol sends a reduce-only market order on the opposite side (Ask for    *)
(* the long agent, Bid for the short one) for the absolute value of the     *)
(* position's net quantity.  Stated for a call whose position queries were  *)
(* all answered with the list.                                              *)
C17_CloseOrderSized ==
    (/\ call = "close_position"
     /\ stage = "done"
     /\ \A k \in DOMAIN asked : asked[k] = "list"
     /\ \E i \in DOMAIN listed : Held(i))
    => /\ placed # <<>>
       /\ \E i \in DOMAIN listed :
             /\ Held(i)
             /\ placed[1] = [orderType |-> "Market",
                             side |-> IF is_long THEN "Ask" ELSE "Bid",
                             reduceOnly |-> TRUE,
                             quantity |-> Abs(listed[i].netQuantity[1])]

(* C16: a close order, sized or of the fixed size, is sent for a            *)
(* sub-account only inside a close_position call whose has_position query   *)
(* just before reported the position present, and close_position is called  *)
(* only for a leg that opened and that a query reported present; when       *)
(* has_position is False close_position returns True and sends no order.    *)
C16_CloseAfterConfirmed ==
    /\ [][~(closes' \subseteq closes) =>
            op \in {"close_sized", "close_fixed"} /\ closes' = closes \cup {Acc}]_vars
    /\ [][(op' = "close_check" /\ op # op') =>
            op = "idle" /\ Opened(Acc) /\ position[Acc]]_vars
    /\ [][(op' = "close_sized" /\ op # op') =>
            op = "close_check" /\ position[Acc] /\ pc' = pc]_vars
    /\ [][(op' = "close_fixed" /\ op # op') => op = "close_sized" /\ pc' = pc]_vars
    /\ [][(op = "close_check" /\ op' = "idle") =>
            /\ ret' = Returned("close_position", Acc, TRUE, 0, 0)
            /\ closes' = closes
            /\ position' = position]_vars

C16_Witness ==
    /\ ret.fn = "close_position"
    /\ ret.val
    /\ Opened(ret.acc)
    /\ ret.acc \notin closes
    /\ ~position[ret.acc]

(* C18: a close_position that returned False blocks nothing: after a failed *)
(* close of the short leg the worker goes on to the long leg, whose close   *)
(* is begun when it opened and is reported present, and after any failed    *)
(* close it goes on to sweep both sub-accounts before the cooldown.         *)
C18_FailedCloseBlocksNothing ==
    /\ [](ret.fn = "close_position" /\ ~ret.val =>
            /\ op = "idle"
            /\ pc = IF ret.acc = "short" THEN "CloseLong" ELSE "PreSweepDelay"
            /\ swept = {})
    /\ [](pc = "CloseLong" /\ op = "idle" /\ long_position_opened /\ position["long"] =>
            ENABLED (CloseSurviving /\ op' = "close_check"))
    /\ [](pc = "Cooldown" => swept = Accounts)
    /\ ((ret.fn = "close_position" /\ ~ret.val) ~> (pc = "Cooldown" /\ swept = Accounts))

C18_Witness ==
    /\ ret.fn = "close_position"
    /\ ~ret.val
    /\ ret.acc = "short"
    /\ pc = "CloseLong"
    /\ long_position_opened
    /\ position["long"]

(* C20: before the maximum monitoring duration the worker leaves Monitoring *)
(* only on a poll that reports an opened leg absent, or both legs absent;   *)
(* while every opened leg is reported present it keeps polling, also when   *)
(* only one of the two legs opened.                                         *)
C20_LeavesOnlyOnAbsentLeg ==
    [][(Polling /\ pc' = "CloseShort" /\ elapsed' < max_monitoring_time) =>
          \/ short_position_opened /\ ~short_has_position'
          \/ long_position_opened /\ ~long_has_position'
          \/ ~short_has_position' /\ ~long_has_position']_vars

(* C19: pair workers share no mutable state: a step of one worker changes   *)
(* no other worker's lifecycle step, opened-leg flags or market caches, so  *)
(* every worker steps as it does alone.                                     *)
C19_NoSharedState ==
    [][\A w \in Pairs : w # actor' =>
          /\ lifecycle'[w] = lifecycle[w]
          /\ opened'[w] = opened[w]
          /\ \A a \in Accounts :
                market_cache'[CacheOf(w, a)] = market_cache[CacheOf(w, a)]]_vars

C19_Witness ==
    /\ lifecycle[1] = "Monitoring"
    /\ lifecycle[2] = "FailSweeping"
    /\ opened[1]["short"] /\ ~opened[2]["short"]
    /\ market_cache[CacheOf(1, "short")] = "cached"
    /\ market_cache[CacheOf(2, "short")] = "empty"
    /\ actor = 1

----------------------------------------------------------------------------
\* a step of the worker that sends an order request for sub-account a
OrderRequested(a) ==
    /\ Worker
    /\ pc \in {"OpenShort", "OpenLong"}
    /\ Acc = a
    /\ op \in {"quote", "quantity"}
    /\ \/ orders' = orders + 1
       \/ ret'.fn = "open_position" /\ ret'.n = orders + 1

(* C21, as the specification states it: in Opening the two legs have no     *)
(* ordering dependency: while the short leg's open_position has not         *)
(* returned, a step that sends an order for the long leg is possible.       *)
C21_LegsUnordered ==
    (pc = "OpenShort" /\ op # "idle") => ENABLED OrderRequested("long")

(* C21, amended: in Opening the two legs are attempted one after the other: *)
(* every order of the long leg is sent after the short leg's open_position  *)
(* has returned, and the long leg is attempted whatever the short leg       *)
(* returned.                                                                *)
C21_LegsInOrder ==
    /\ [][OrderRequested("long") => "short" \in returned]_vars
    /\ [][OrderRequested("short") => "long" \notin returned]_vars
    /\ [](pc = "OpenLong" => returned = {"short"})
    /\ []((ret.fn = "open_position" /\ ret.acc = "short") => pc = "OpenLong")
    /\ [][(pc = "OpenShort" /\ pc' # pc) => pc' = "OpenLong"]_vars

C21_Witness ==
    /\ pc = "OpenLong"
    /\ op = "quantity"
    /\ orders = 1
    /\ returned = {"short"}
    /\ ~short_position_opened

(* C22: for a position has_position matches under any form it accepts (a    *)
(* symbol that differs by the separator variant, a position list delivered  *)
(* as the list or under "data"), close_position sizes its reduce-only order *)
(* to the queried size of that position, not to the fixed size.             *)
C22_SizedForAnyAcceptedForm ==
    (/\ call = "close_position"
     /\ stage = "done"
     /\ Len(asked) > 1
     /\ \A k \in DOMAIN asked : asked[k] \in {"list", "data"}
     /\ \A i \in DOMAIN listed :
           listed[i].symbol \in symbol_variants(symbol) => listed[i].netQuantity # <<>>)
    => /\ placed # <<>>
       /\ placed[1].reduceOnly
       /\ placed[1].quantity # fixed_size
       /\ \E i \in DOMAIN listed :
             /\ listed[i].symbol \in symbol_variants(symbol)
             /\ placed[1].quantity = Abs(listed[i].netQuantity[1])

(* C23: a failed deposit to one or both sub-accounts does not end the       *)
(* cycle: the worker goes on to the delay and to Opening; while a           *)
(* sub-account has no available margin no order is sent for it and its      *)
(* open_position returns False, and when neither leg opened the cycle takes *)
(* the both-failed path back to the deposits.                               *)
C23_FailedDepositGoesOn ==
    /\ [][(pc = "DepositShort" /\ pc' # pc) => pc' = "DepositDelay"]_vars
    /\ [][(pc = "DepositDelay" /\ pc' # pc) => pc' = "DepositLong"]_vars
    /\ [][(pc = "DepositLong" /\ pc' # pc) => pc' = "PreOpenDelay"]_vars
    /\ [][(pc = "PreOpenDelay" /\ pc' # pc) => pc' = "OpenShort"]_vars
    /\ [][(pc \in {"OpenShort", "OpenLong"} /\ avail[Acc] = 0) =>
            ~OrderRequested(Acc)]_vars
    /\ [][(pc \in {"OpenShort", "OpenLong"} /\ avail[Acc] = 0
                /\ op # "idle" /\ op' = "idle") =>
            ret' = Returned("open_position", Acc, FALSE, 0, 0)]_vars
    /\ [][(pc = "OpenLong" /\ pc' # pc /\ ~short_position_opened
                /\ ~long_position_opened') => pc' = "FailSweepShort"]_vars
    /\ [][(pc = "FailWait" /\ pc' # pc) => pc' = "DepositShort"]_vars

C23_Witness ==
    /\ pc = "FailSweepShort"
    /\ op = "idle"
    /\ deposits = Accounts
    /\ avail = [a \in Accounts |-> 0]
    /\ position = [a \in Accounts |-> FALSE]
    /\ returned = Accounts
    /\ ret = Returned("open_position", "long", FALSE, 0, 0)
    /\ BothOpensFailed

(* C24: an unexpected failure inside a cycle is caught at the cycle         *)
(* boundary; the worker then attempts to close every leg still present and  *)
(* to sweep both sub-accounts, each attempt made whatever the others        *)
(* returned, waits the fixed longer delay and restarts the cycle at the     *)
(* deposits.                                                                *)
C24_FailureCleanup ==
    /\ [](pc # "Returned")
    /\ [][(pc \notin ExceptPcs /\ pc' \in ExceptPcs) =>
            pc' = "ExceptCloseShort" /\ op' = "idle" /\ venue' = venue]_vars
    /\ [][(pc \in ExceptPcs /\ pc' # pc) =>
            \/ pc = "ExceptCloseShort" /\ pc' = "ExceptCloseLong"
            \/ pc = "ExceptCloseLong" /\ pc' = "ExceptSweepShort"
            \/ pc = "ExceptSweepShort" /\ pc' = "ExceptSweepLong"
            \/ pc = "ExceptSweepLong" /\ pc' = "ExceptWait"
            \/ pc = "ExceptWait" /\ pc' = "DepositShort"]_vars
    /\ []((pc \in {"ExceptCloseShort", "ExceptCloseLong"} /\ op = "idle"
              /\ position[Acc]) => ENABLED (ExceptClose /\ op' = "close_check"))
    /\ [][(pc \in {"ExceptCloseShort", "ExceptCloseLong"} /\ op = "idle"
              /\ op' = "close_check") => position[Acc]]_vars
    /\ [](pc = "ExceptWait" => swept = Accounts /\ op = "idle")
    /\ [][(pc = "ExceptWait" /\ pc' # pc) =>
            /\ delay' = [fn |-> "worker_pair", d |-> ExceptSleep]
            /\ ExceptSleep > cfg.max_delay]_vars

C24_Witness ==
    /\ pc = "ExceptWait"
    /\ closes = Accounts
    /\ swept = Accounts
    /\ ret.fn = "sweep"
    /\ ~ret.val
    /\ position["short"]

(* C25: each time the base quantity of the fallback sizing is computed, the *)
(* price used was fetched from the venue in that call; a price an earlier   *)
(* call stored in the trader's market cache is never reused.                *)
C25_PriceFetchedEachTime ==
    sized.n > 0 => sized.fetched /\ sized.price \in {sized.ticker, TickerFallback}

(* C26: one call of open_position gets at most one order accepted by the    *)
(* venue: the step in which an order is accepted is the step in which the   *)
(* call returns, and the call returns True exactly when an order of that    *)
(* call was accepted.                                                       *)
C26_OneAcceptedOrder ==
    /\ [][(pc \in {"OpenShort", "OpenLong"} /\ avail' # avail) =>
            /\ op # "idle" /\ op' = "idle"
            /\ ret' = Returned("open_position", Acc, TRUE, 0, ret'.n)
            /\ ret'.n > 0
            /\ position'[Acc]]_vars
    /\ [][(pc \in {"OpenShort", "OpenLong"} /\ op # "idle" /\ op' = "idle") =>
            /\ ret'.fn = "open_position"
            /\ ret'.val = (avail' # avail)
            /\ ret'.acc = Acc
            /\ IF pc = "OpenShort" THEN short_position_opened' = ret'.val
                                   ELSE long_position_opened' = ret'.val]_vars
    /\ [](pc \in {"OpenShort", "OpenLong"} /\ op # "idle" => Acc \notin returned)

C26_Witness ==
    /\ ret = Returned("open_position", "long", TRUE, 0, 3)
    /\ long_position_opened
    /\ position["long"]
    /\ avail["long"] = 0

(* C27: one call of sweep completes at most one withdrawal (it returns in   *)
(* the step in which a withdrawal is accepted), sends at most 6 withdrawal  *)
(* requests, and never requests more than the balance it read at the start  *)
(* of the call.                                                             *)
C27_SweepBounded ==
    /\ [][(pc \in SweepPcs /\ avail' # avail) =>
            /\ op \in {"withdraw", "halve"} /\ op' = "idle"
            /\ pc' = AfterSweep(pc)
            /\ ret'.fn = "sweep" /\ ret'.val
            /\ avail'[Acc] >= 0
            /\ avail[Acc] - avail'[Acc] <= balance]_vars
    /\ []((pc \in SweepPcs /\ op \in {"withdraw", "halve"}) =>
            qty <= balance /\ withdrawals < 6)
    /\ [](ret.fn = "sweep" => ret.n <= 6)
    /\ [][(pc \in SweepPcs /\ op = "halve" /\ withdrawals' > withdrawals) =>
            qty' <= balance]_vars

C27_Witness ==
    /\ ret.fn = "sweep"
    /\ ~ret.val
    /\ ret.n = 6
    /\ ret.balance = MaxSweepUnits * DustThreshold
    /\ avail[ret.acc] = ret.balance

\* Monitoring ended by the loop test, both legs reported present at the last poll
TimedOut ==
    /\ elapsed >= max_monitoring_time
    /\ pc \in {"CloseShort", "CloseLong", "PreSweepDelay", "SweepShort", "SweepLong",
               "Cooldown"}

C29_FailedQuerySweepsNothing ==
    [][(pc \in SweepPcs /\ op = "idle" /\ (op' # op \/ pc' # pc)) =>
          \/ /\ op' = "withdraw"
             /\ balance' = avail[Acc]
             /\ ~BelowDust(avail[Acc])
          \/ /\ op' = "idle"
             /\ ret'.balance \in {avail[Acc], 0}
             /\ ret' = Returned("sweep", Acc, TRUE, ret'.balance, 0)
             /\ avail' = avail
             /\ pc' = AfterSweep(pc)]_vars

C29_Witness ==
    /\ ret.fn = "sweep"
    /\ ret.val
    /\ ret.n = 0
    /\ ret.balance = 0
    /\ avail[ret.acc] > DustThreshold
    /\ pc = "Cooldown"

====
